---- MODULE Spec2Model ----
(***************************************************************************)
(* Model of the music generation service: the POST /api/generate route,    *)
(* MusicGenerator.generateSong with its neural and professional paths, the *)
(* MusicTheoryEngine resolver, the song structure and duration             *)
(* calculations and the two WAV encoders; the renderer's effects chain,     *)
(* mastering chain, layer generators and chord lookup; the in-memory track *)
(* storage; one evolution step of the genetic population.                  *)
(*                                                                         *)
(* Conventions.  A JavaScript value that may be missing is an optional:    *)
(* Undefined (the empty tuple) or Def(v) (the one-tuple of v); a number    *)
(* that is NaN is Undefined too, since no arithmetic here tells the two    *)
(* apart.  Times in seconds are rationals kept as an integer numerator     *)
(* over the denominator stored next to them.  A prompt is the sequence of  *)
(* its maximal runs of non-separator characters (what split(/[\s,.-]+/)    *)
(* cuts it into), each still in the case the user typed.                   *)
(***************************************************************************)
EXTENDS Integers, Sequences, FiniteSets

VARIABLES
    generationCount,   \* MusicGenerator.generationCount
    phase,             \* "idle": no request in the handler; "done": generateSong has settled
    settings,          \* the musicSettings of the request in the handler
    outcome,           \* "none" | "ok" | the error generateSong rejected with
    path,              \* "none" | "neural" | "professional": the pipeline that ran last
    analysis,          \* the MusicTheoryAnalysis of the professional path, or Undefined
    layers,            \* the synth layer types of the professional path
    metadata,          \* GenerationMetadata (duration, structure), or Undefined
    wav,               \* the bytes of the audio buffer: header and the probed sample
    probe,             \* the float sample handed to the encoder at the probed index (eighths)
    draws,             \* the random draws of the call that settled last, where they are recorded
    first,             \* an earlier call kept for comparison: its inputs and what it returned
    calls,             \* the generateSong calls in flight on one generator, by order of start
    tracks,            \* MemStorage.tracks: the map from id to Track
    issued,            \* the ids randomUUID has returned to createTrack
    live,              \* the ids createTrack returned and deleteTrack has not removed since
    clock,             \* what new Date() reads
    reply,             \* the storage call made last and what it returned
    renders,           \* the renderComposition calls started so far
    fxPc,              \* "idle" | "layer" | "effects" | "mix": where renderComposition stands
    fxSettings,        \* the settings of the render under way
    mixerChannels,     \* per channel its layer buffer, the samples renderSynthLayer left
                       \* in it (input) and the effects object it holds
    effectsStates,     \* the effects objects allocated for this render
    channel,           \* the channel the loop over mixerChannels is at
    sampleIndex,       \* i of the loop in applyEffectsChain
    effectLog,         \* the values the loop body passed last: effect inputs and outputs
    written,           \* per ring buffer the values written so far on this channel
    master,            \* the sample applyMasteringChain handled last: its inputs and result
    moodCall,          \* the words extractAdvancedMood was last called on and its result
    synthLayer,        \* a SynthLayer as its constructor returned it: type, pattern, volume
    rendered,          \* one sample of that layer: what its generator returned and what the mix adds
    chordCall,         \* the sample getCurrentChord was last called for and the chord it returned
    evolvePc,          \* "new" | "ready" | "breeding" | "done": where the genetic generator stands
    population,        \* AdvancedMusicGenerator.population: genomes as references into the heap
    heap,              \* the chord arrays and effects objects the genomes refer to
    elite,             \* what selectElite returned to evolvePopulation
    eliteGenes,        \* the genes of those genomes as they were when selected
    newPopulation      \* newPopulation of evolvePopulation

genVars == <<generationCount, phase, settings, outcome, path, analysis, layers, metadata, wav, probe>>
repeatVars == <<draws, first>>

storeVars == <<tracks, issued, live, clock, reply>>

fxVars == <<renders, fxPc, fxSettings, mixerChannels, effectsStates, channel, sampleIndex,
            effectLog, written>>

geneVars == <<evolvePc, population, heap, elite, eliteGenes, newPopulation>>

stageVars == <<master, moodCall, synthLayer, rendered, chordCall, geneVars>>

vars == <<genVars, repeatVars, calls, storeVars, fxVars, stageVars>>

Undefined == <<>>
Def(v) == <<v>>
Get(x) == x[1]

\* The largest number of generateSong calls explored.
MaxGenerations == 5

\* The number of generateSong calls that may be in flight together
MaxCalls == 4

\* The ids randomUUID draws from, and the number of storage calls followed
MaxTracks == 3
MaxOps == 5

\* The renderComposition calls followed and the layers of one render
MaxRenders == 2
MaxLayers == 2

----------------------------------------------------------------------------
(* JavaScript helpers *)

Min(a, b) == IF a < b THEN a ELSE b
Max(a, b) == IF a > b THEN a ELSE b

\* Math.round(num / den) for den > 0: floor(x + 0.5)
MathRound(num, den) == (2 * num + den) \div (2 * den)

\* Math.floor(num / den) for den > 0
MathFloor(num, den) == num \div den

\* x || d for an optional number x: 0, NaN and undefined are falsy
OrDefault(x, d) == IF x = Undefined THEN d ELSE IF Get(x) = 0 THEN d ELSE Get(x)

\* a + b, a - b and a % m on optional numbers: NaN when an operand has no value
JsAdd(a, b) == IF a = Undefined \/ b = Undefined THEN Undefined ELSE Def(Get(a) + Get(b))
JsSub(a, b) == IF a = Undefined \/ b = Undefined THEN Undefined ELSE Def(Get(a) - Get(b))
JsMod(a, m) == IF a = Undefined THEN Undefined ELSE Def(Get(a) % m)

\* arr[i] of a JavaScript array (0-based): an optional, undefined past the end
At(arr, i) == IF i >= 0 /\ i < Len(arr) THEN Def(arr[i + 1]) ELSE Undefined

Some(words, keywords) == \E i \in 1..Len(words) : words[i] \in keywords

RECURSIVE MapToLower(_)
ToLowerCase(w) ==
    CASE w = "Dark" -> "dark"
      [] w = "Create" -> "create"
      [] w = "SLOW" -> "slow"
      [] OTHER -> w
MapToLower(ws) == IF ws = <<>> THEN <<>> ELSE <<ToLowerCase(Head(ws))>> \o MapToLower(Tail(ws))

----------------------------------------------------------------------------
(* MusicTheoryEngine *)

Moods == {"dreamy", "dark", "uplifting", "melancholic", "ethereal", "nostalgic"}

\* Object.entries(moodKeywords) visits the moods in this order
MoodOrder == <<"dreamy", "dark", "uplifting", "melancholic", "ethereal", "nostalgic">>

moodKeywords(mood) ==
    CASE mood = "dreamy" -> {"dreamy", "ethereal", "floating", "soft", "gentle", "peaceful", "serene", "ambient"}
      [] mood = "dark" -> {"dark", "mysterious", "brooding", "ominous", "gothic", "sinister", "moody", "shadow"}
      [] mood = "uplifting" -> {"uplifting", "bright", "happy", "energetic", "positive", "euphoric", "joyful"}
      [] mood = "melancholic" -> {"sad", "melancholic", "tragic", "somber", "wistful", "nostalgic", "longing"}
      [] mood = "ethereal" -> {"ethereal", "ghostly", "spiritual", "otherworldly", "transcendent", "celestial"}
      [] mood = "nostalgic" -> {"nostalgic", "vintage", "retro", "memory", "reminiscent", "yearning"}

extractAdvancedMood_lastMatch(words) ==
    LET hits == {i \in 1..Len(MoodOrder) : Some(words, moodKeywords(MoodOrder[i]))}
    IN  IF hits = {} THEN "dreamy"
        ELSE MoodOrder[CHOOSE i \in hits : \A j \in hits : i >= j]

extractAdvancedMood(words) ==
    LET hits == {i \in 1..Len(MoodOrder) : Some(words, moodKeywords(MoodOrder[i]))}
    IN  IF hits = {} THEN "dreamy"
        ELSE MoodOrder[CHOOSE i \in hits : \A j \in hits : i <= j]

extractMusicStyle(words) ==
    IF Some(words, {"trap", "hip", "hop", "beats", "808"}) THEN "trap"
    ELSE IF Some(words, {"electronic", "synth", "digital", "edm"}) THEN "electronic"
    ELSE IF Some(words, {"ambient", "atmospheric", "drone", "soundscape"}) THEN "ambient"
    ELSE "ambient-trap"

\* The tempo multiplier in tenths: 0.7, 1.3 or 1.0
tempoMultiplier(words) ==
    IF Some(words, {"slow", "languid", "dreamy", "ambient"}) THEN 7
    ELSE IF Some(words, {"fast", "energetic", "driving", "intense"}) THEN 13
    ELSE 10

\* The double nearest 0.7 lies below 7/10.  For these base tempos b the exact
\* product 7b/10 ends in .5 and the double product b * 0.7 is the double just
\* below it, so Math.round goes down where the exact product would go up; for
\* every other integer b in 1..400 and for 1.3 and 1.0 the double product
\* rounds as the exact one does.
RoundsBelowHalf(baseTempo, mult) ==
    mult = 7 /\ baseTempo \in {45, 85, 165, 175, 325, 335, 345, 355, 365}

calculateProfessionalTempo(words, baseTempo) ==
    LET mult == tempoMultiplier(words)
        exact == MathRound(baseTempo * mult, 10)
    IN  IF RoundsBelowHalf(baseTempo, mult) THEN exact - 1 ELSE exact

keysByMood(mood) ==
    CASE mood = "dreamy" -> <<"Em", "Am", "Dm", "F#m">>
      [] mood = "dark" -> <<"Dm", "Gm", "Cm", "F#m">>
      [] mood = "uplifting" -> <<"C", "G", "D", "A">>
      [] mood = "melancholic" -> <<"Am", "Em", "Bm", "F#m">>
      [] mood = "ethereal" -> <<"Em", "Bm", "F#m", "C#m">>
      [] mood = "nostalgic" -> <<"Am", "Dm", "G", "Em">>
      [] OTHER -> <<"Em", "Am", "Dm", "F#m">>

\* rnd is Math.floor(Math.random() * possibleKeys.length)
selectProfessionalKey(mood, rnd) == Get(At(keysByMood(mood), rnd))

SCALES(name) ==
    CASE name = "natural-minor" -> <<0, 2, 3, 5, 7, 8, 10>>
      [] name = "harmonic-minor" -> <<0, 2, 3, 5, 7, 8, 11>>
      [] name = "dorian" -> <<0, 2, 3, 5, 7, 9, 10>>
      [] name = "phrygian" -> <<0, 1, 3, 5, 7, 8, 10>>
      [] name = "major" -> <<0, 2, 4, 5, 7, 9, 11>>
      [] name = "pentatonic-minor" -> <<0, 3, 5, 7, 10>>

\* The mapping with dark sent to the fallback scale
scaleByMood_darkUnmapped(mood) ==
    CASE mood = "dreamy" -> "natural-minor"
      [] mood = "uplifting" -> "major"
      [] mood = "melancholic" -> "natural-minor"
      [] mood = "ethereal" -> "dorian"
      [] mood = "nostalgic" -> "natural-minor"
      [] OTHER -> "natural-minor"

scaleByMood(mood) ==
    CASE mood = "dreamy" -> "natural-minor"
      [] mood = "dark" -> "phrygian"
      [] mood = "uplifting" -> "major"
      [] mood = "melancholic" -> "natural-minor"
      [] mood = "ethereal" -> "dorian"
      [] mood = "nostalgic" -> "natural-minor"
      [] OTHER -> "natural-minor"

selectScale(mood) == SCALES(scaleByMood(mood))

\* key.replace(/m$/, ''): the keys of keysByMood without a trailing m
stripMinor(key) ==
    CASE key = "Em" -> "E"
      [] key = "Am" -> "A"
      [] key = "Dm" -> "D"
      [] key = "F#m" -> "F#"
      [] key = "Gm" -> "G"
      [] key = "Cm" -> "C"
      [] key = "Bm" -> "B"
      [] key = "C#m" -> "C#"
      [] OTHER -> key

noteToNumber(noteName) ==
    CASE noteName = "C" -> Def(0)
      [] noteName \in {"C#", "Db"} -> Def(1)
      [] noteName = "D" -> Def(2)
      [] noteName \in {"D#", "Eb"} -> Def(3)
      [] noteName = "E" -> Def(4)
      [] noteName = "F" -> Def(5)
      [] noteName \in {"F#", "Gb"} -> Def(6)
      [] noteName = "G" -> Def(7)
      [] noteName \in {"G#", "Ab"} -> Def(8)
      [] noteName = "A" -> Def(9)
      [] noteName \in {"A#", "Bb"} -> Def(10)
      [] noteName = "B" -> Def(11)
      [] OTHER -> Undefined

parseKey(key) == OrDefault(noteToNumber(stripMinor(key)), 0)

\* CHORD_PROGRESSIONS['ambient-trap'][mood]: three moods have an entry
CHORD_PROGRESSIONS(mood) ==
    CASE mood = "dreamy" -> Def(<< <<"vi", "IV", "I", "V">>, <<"i", "VI", "III", "VII">>, <<"i", "v", "VI", "IV">> >>)
      [] mood = "dark" -> Def(<< <<"i", "VII", "VI", "VII">>, <<"i", "ii°", "V", "i">>, <<"i", "VI", "ii°", "V">> >>)
      [] mood = "uplifting" -> Def(<< <<"I", "V", "vi", "IV">>, <<"I", "vi", "ii", "V">>, <<"IV", "V", "vi", "I">> >>)
      [] OTHER -> Undefined

romanMap(roman) ==
    CASE roman \in {"I", "i"} -> Def(0)
      [] roman \in {"ii", "II"} -> Def(1)
      [] roman \in {"iii", "III"} -> Def(2)
      [] roman \in {"IV", "iv"} -> Def(3)
      [] roman \in {"V", "v"} -> Def(4)
      [] roman \in {"vi", "VI"} -> Def(5)
      [] roman \in {"vii°", "VII"} -> Def(6)
      [] OTHER -> Undefined

\* The triad [root, third, fifth]: each entry an optional semitone, Undefined
\* standing for NaN
romanToChord(roman, root, scale) ==
    LET degree == OrDefault(romanMap(roman), 0)
        chordRoot == JsMod(JsAdd(Def(root), At(scale, degree)), 12)
    IN  << chordRoot,
           JsMod(JsSub(JsAdd(chordRoot, At(scale, degree + 2)), At(scale, degree)), 12),
           JsMod(JsSub(JsAdd(chordRoot, At(scale, degree + 4)), At(scale, degree)), 12) >>

getHarmonicFunction(roman) ==
    CASE roman \in {"I", "i", "vi", "VI"} -> "tonic"
      [] roman \in {"IV", "iv"} -> "subdominant"
      [] roman \in {"ii", "II"} -> "predominant"
      [] roman \in {"V", "v", "VII", "vii°"} -> "dominant"
      [] OTHER -> "tonic"

\* What a call that may throw yields: Return(v), or the TypeError it threw
TypeError == [threw |-> TRUE]
Return(v) == [threw |-> FALSE, value |-> v]
Threw(r) == r.threw

\* rnd is Math.floor(Math.random() * progressionData.length); reading .length of
\* a missing progressionData throws a TypeError
generateProfessionalChordProgression(key, scale, mood, rnd) ==
    LET progressionData == CHORD_PROGRESSIONS(mood)
    IN  IF progressionData = Undefined THEN TypeError
        ELSE LET selected == Get(At(Get(progressionData), rnd))
                 rootNote == parseKey(key)
             IN  Return([i \in 1..Len(selected) |->
                           [roman |-> selected[i],
                            intervals |-> romanToChord(selected[i], rootNote, scale),
                            function |-> getHarmonicFunction(selected[i]),
                            duration |-> 4]])

\* The bar multiplier in tenths: 1.5, 0.8 or 1.0
structureTempoMultiplier(tempo) == IF tempo < 80 THEN 15 ELSE IF tempo > 120 THEN 8 ELSE 10

createProfessionalStructure(tempo) ==
    LET m == structureTempoMultiplier(tempo)
    IN  [intro |-> MathRound(8 * m, 10),
         verse |-> MathRound(16 * m, 10),
         chorus |-> MathRound(8 * m, 10),
         bridge |-> MathRound(8 * m, 10),
         outro |-> MathRound(8 * m, 10),
         totalBars |-> MathRound((8 + 16 + 8 + 8 + 8) * m, 10)]

\* prompt is the prompt's token sequence; keyRnd and progRnd are the random draws
analyzePromptAdvanced(prompt, s, keyRnd, progRnd) ==
    LET words == MapToLower(prompt)
        mood == extractAdvancedMood(words)
        style == extractMusicStyle(words)
        tempo == calculateProfessionalTempo(words, OrDefault(s.pace, 85))
        key == selectProfessionalKey(mood, keyRnd)
        scale == selectScale(mood)
        chordProgression == generateProfessionalChordProgression(key, scale, mood, progRnd)
    IN  IF Threw(chordProgression) THEN TypeError
        ELSE Return([key |-> key, scale |-> scale, chordProgression |-> chordProgression.value,
                     songStructure |-> createProfessionalStructure(tempo),
                     tempo |-> tempo, mood |-> mood, style |-> style])

----------------------------------------------------------------------------
(* ProfessionalSynthEngine *)

\* The layers without the texture layer when no instrument is enabled
createSynthLayers_textureWithInstruments(a, s) ==
    IF s.instruments = Undefined THEN TypeError
    ELSE LET inst == Get(s.instruments)
         IN  Return((IF inst.pads THEN <<"pad">> ELSE <<>>)
                    \o (IF inst.bass THEN <<"bass">> ELSE <<>>)
                    \o (IF inst.arps THEN <<"arp">> ELSE <<>>)
                    \o (IF inst.drums THEN <<"percussion">> ELSE <<>>)
                    \o (IF inst.synths THEN <<"lead">> ELSE <<>>)
                    \o (IF inst.pads \/ inst.bass \/ inst.arps \/ inst.drums \/ inst.synths
                        THEN <<"texture">> ELSE <<>>))

\* The layers by type, in the order they are pushed; settings.instruments.pads
\* on a settings object without instruments throws a TypeError
createSynthLayers(a, s) ==
    IF s.instruments = Undefined THEN TypeError
    ELSE LET inst == Get(s.instruments)
         IN  Return((IF inst.pads THEN <<"pad">> ELSE <<>>)
                    \o (IF inst.bass THEN <<"bass">> ELSE <<>>)
                    \o (IF inst.arps THEN <<"arp">> ELSE <<>>)
                    \o (IF inst.drums THEN <<"percussion">> ELSE <<>>)
                    \o (IF inst.synths THEN <<"lead">> ELSE <<>>)
                    \o <<"texture">>)

----------------------------------------------------------------------------
(* WAV encoders *)

SAMPLE_RATE == 44100

\* The denominator of the probed sample: the float handed to the encoder is
\* probe / ProbeDen
ProbeDen == 8

writeUInt32LE(v) == <<v % 256, (v \div 256) % 256, (v \div 65536) % 256, (v \div 16777216) % 256>>
writeUInt16LE(v) == <<v % 256, (v \div 256) % 256>>

\* buffer.writeInt16LE(value) of the number num / ProbeDen: each byte store
\* drops the fraction (ToUint8, and ToUint32 for value >>> 8), so a value that
\* is no integer is cut towards zero
writeInt16LE(num) ==
    LET t == IF num >= 0 THEN num \div ProbeDen ELSE 0 - ((0 - num) \div ProbeDen)
    IN  <<t % 256, (t \div 256) % 256>>

\* The sample handed on as it comes, without the clamp
clampUnit_passThrough(num) == num

\* Math.max(-1, Math.min(1, x)) on x = num / ProbeDen
clampUnit(num) == Max(0 - ProbeDen, Min(ProbeDen, num))

\* The header with the data size counted in samples instead of bytes
wavHeader_dataSizeInSamples(length, sampleRate) ==
    <<82, 73, 70, 70>> \o writeUInt32LE(36 + length * 2)
    \o <<87, 65, 86, 69>> \o <<102, 109, 116, 32>>
    \o writeUInt32LE(16) \o writeUInt16LE(1) \o writeUInt16LE(1)
    \o writeUInt32LE(sampleRate) \o writeUInt32LE(sampleRate * 2)
    \o writeUInt16LE(2) \o writeUInt16LE(16)
    \o <<100, 97, 116, 97>> \o writeUInt32LE(length)

\* The 44 header bytes both encoders write
wavHeader(length, sampleRate) ==
    <<82, 73, 70, 70>> \o writeUInt32LE(36 + length * 2)
    \o <<87, 65, 86, 69>> \o <<102, 109, 116, 32>>
    \o writeUInt32LE(16) \o writeUInt16LE(1) \o writeUInt16LE(1)
    \o writeUInt32LE(sampleRate) \o writeUInt32LE(sampleRate * 2)
    \o writeUInt16LE(2) \o writeUInt16LE(16)
    \o <<100, 97, 116, 97>> \o writeUInt32LE(length * 2)

\* ProfessionalAudioRenderer.createWAVBuffer on audioData of the given length
\* whose probed entry is sample / ProbeDen
createWAVBuffer(length, sampleRate, sample) ==
    [size |-> 44 + length * 2,
     header |-> wavHeader(length, sampleRate),
     data |-> writeInt16LE(MathRound(clampUnit(sample) * 32767, ProbeDen) * ProbeDen)]

\* MusicGenerator.createWAVBuffer: sample * 0x7FFF goes to writeInt16LE unrounded
generatorCreateWAVBuffer(length, sampleRate, sample) ==
    [size |-> 44 + length * 2,
     header |-> wavHeader(length, sampleRate),
     data |-> writeInt16LE(clampUnit(sample) * 32767)]

\* The mix and mastering stages are not modelled sample by sample: the value
\* they leave at the probed index is the input `sample`
renderComposition(a, synthLayers, s, duration, sample) ==
    LET samples == duration * SAMPLE_RATE
    IN  createWAVBuffer(samples, SAMPLE_RATE, sample)

----------------------------------------------------------------------------
(* MusicGenerator *)

getDefaultSettings ==
    [pace |-> Def(85), mood |-> Def("dreamy"),
     instruments |-> Def([drums |-> TRUE, bass |-> TRUE, synths |-> TRUE, pads |-> TRUE, arps |-> FALSE]),
     customPrompt |-> Undefined]

\* moodMultipliers[mood] || 1.0, in tenths
moodMultiplier(mood) ==
    IF mood = Undefined THEN 10
    ELSE CASE Get(mood) = "dreamy" -> 12
           [] Get(mood) = "dark" -> 11
           [] Get(mood) = "uplifting" -> 9
           [] Get(mood) = "melancholic" -> 13
           [] Get(mood) = "ethereal" -> 14
           [] Get(mood) = "nostalgic" -> 11
           [] OTHER -> 10

\* The double products differ from the exact ones only above 180, where the
\* clamp hides the difference
calculateDynamicDuration(s, count) ==
    LET baseDuration == 120 + count * 5
        paceMult == IF s.pace = Undefined THEN 10
                    ELSE IF Get(s.pace) < 80 THEN 12
                    ELSE IF Get(s.pace) > 120 THEN 8 ELSE 10
    IN  Min(180, Max(90, MathFloor(baseDuration * moodMultiplier(s.mood) * paceMult, 100)))

\* The section ratios in hundredths
structures ==
    << [intro |-> 10, verse |-> 25, hook |-> 40, bridge |-> 15, outro |-> 10],
       [intro |-> 20, verse |-> 30, hook |-> 30, bridge |-> 10, outro |-> 10],
       [intro |-> 10, verse |-> 20, hook |-> 50, bridge |-> 10, outro |-> 10],
       [intro |-> 15, verse |-> 35, hook |-> 25, bridge |-> 15, outro |-> 10] >>

\* Times are numerators over den
generateEvolvedStructure(s, count) ==
    LET duration == calculateDynamicDuration(s, count)
        ratios == Get(At(structures, count % Len(structures)))
        intro == [start |-> 0, end |-> 0 + duration * ratios.intro]
        verse == [start |-> intro.end, end |-> intro.end + duration * ratios.verse]
        hook == [start |-> verse.end, end |-> verse.end + duration * ratios.hook]
        bridge == [start |-> hook.end, end |-> hook.end + duration * ratios.bridge]
        outro == [start |-> bridge.end, end |-> duration * 100]
    IN  [den |-> 100, intro |-> intro, verse |-> verse, hook |-> hook, bridge |-> bridge, outro |-> outro]

\* The duration without the final clamp
calculateProfessionalDuration_unclamped(a) ==
    LET tempoMult == IF a.tempo < 80 THEN 13 ELSE IF a.tempo > 120 THEN 8 ELSE 10
        baseDuration == 120 * tempoMult * moodMultiplier(Def(a.mood)) * a.songStructure.totalBars
    IN  MathFloor(baseDuration, 10 * 10 * 48)

calculateProfessionalDuration(a) ==
    LET tempoMult == IF a.tempo < 80 THEN 13 ELSE IF a.tempo > 120 THEN 8 ELSE 10
        baseDuration == 120 * tempoMult * moodMultiplier(Def(a.mood)) * a.songStructure.totalBars
    IN  Min(180, Max(90, MathFloor(baseDuration, 10 * 10 * 48)))

\* barDuration = 4 / (tempo / 60) = 240 / tempo seconds: times are numerators
\* over den = tempo
createProfessionalSongStructure(duration, a) ==
    LET sections == a.songStructure
        barDuration == 240
        intro == [start |-> 0, end |-> 0 + sections.intro * barDuration]
        verse == [start |-> intro.end, end |-> intro.end + sections.verse * barDuration]
        hook == [start |-> verse.end,
                 end |-> verse.end + OrDefault(Def(sections.chorus), sections.verse) * barDuration]
        bridge == [start |-> hook.end,
                   end |-> hook.end + (IF sections.bridge # 0 THEN sections.bridge * barDuration
                                       ELSE (sections.verse * barDuration) \div 2)]
        outro == [start |-> bridge.end, end |-> duration * a.tempo]
    IN  [den |-> a.tempo, intro |-> intro, verse |-> verse, hook |-> hook, bridge |-> bridge, outro |-> outro]

DefaultPrompt == <<"Create", "an", "ambient", "music", "track">>

\* An empty or blank customPrompt is falsy after trim()
createCustomPrompt(s) ==
    IF s.customPrompt # Undefined /\ Get(s.customPrompt) # <<>> THEN Get(s.customPrompt)
    ELSE DefaultPrompt

\* What a call of generateSong leaves behind
Result(out, p, a, ls, md, w) ==
    [outcome |-> out, path |-> p, analysis |-> a, layers |-> ls, metadata |-> md, wav |-> w]

generateEnhancedFallback(s, keyRnd, progRnd, sample) ==
    LET prompt == createCustomPrompt(s)
        analysed == analyzePromptAdvanced(prompt, s, keyRnd, progRnd)
    IN  IF Threw(analysed)
        THEN Result("TypeError", "professional", Undefined, <<>>, Undefined, Undefined)
        ELSE LET musicAnalysis == analysed.value
                 layered == createSynthLayers(musicAnalysis, s)
             IN  IF Threw(layered)
                 THEN Result("TypeError", "professional", Def(musicAnalysis), <<>>, Undefined, Undefined)
                 ELSE LET synthLayers == layered.value
                          duration == calculateProfessionalDuration(musicAnalysis)
                          audioBuffer == renderComposition(musicAnalysis, synthLayers, s, duration, sample)
                          songStructure == createProfessionalSongStructure(duration, musicAnalysis)
                      IN  Result("ok", "professional", Def(musicAnalysis), synthLayers,
                                 Def([duration |-> duration, structure |-> songStructure]),
                                 Def(audioBuffer))

generatePlaceholderAudio(duration, s, sample) ==
    generatorCreateWAVBuffer(duration * 44100, 44100, sample)

synthesizeNeuralComposition(s, count, sample) ==
    generatePlaceholderAudio(calculateDynamicDuration(s, count), s, sample)

\* generateSong with the neural composer on every second call
generateSong_everySecond(s, count, keyRnd, progRnd, sample) ==
    IF count % 2 = 0
    THEN Result("ok", "neural", Undefined, <<>>,
                Def([duration |-> calculateDynamicDuration(s, count),
                     structure |-> generateEvolvedStructure(s, count)]),
                Def(synthesizeNeuralComposition(s, count, sample)))
    ELSE generateEnhancedFallback(s, keyRnd, progRnd, sample)

\* count is generationCount after this call's increment.  Every third call
\* takes the neural composer; on the other calls the genetic generator throws
\* ("AudioContext synthesis not available in server environment") and the
\* catch block runs the professional fallback.
generateSong(s, count, keyRnd, progRnd, sample) ==
    IF count % 3 = 0
    THEN Result("ok", "neural", Undefined, <<>>,
                Def([duration |-> calculateDynamicDuration(s, count),
                     structure |-> generateEvolvedStructure(s, count)]),
                Def(synthesizeNeuralComposition(s, count, sample)))
    ELSE generateEnhancedFallback(s, keyRnd, progRnd, sample)

----------------------------------------------------------------------------
(* The requests explored *)

EmptySettings == [pace |-> Undefined, mood |-> Undefined, instruments |-> Undefined, customPrompt |-> Undefined]

Prompts ==
    { <<>>, <<"dark", "brooding">>, <<"Dark">>, <<"happy", "fast">>, <<"sad">>,
      <<"slow", "piano">>, <<"ethereal">>, <<"nostalgic">>, <<"uplifting", "SLOW">> }

Paces == {60, 85, 180}

SettingMoods == {"dark", "ethereal"}

InstrumentSets ==
    { [drums |-> TRUE, bass |-> TRUE, synths |-> TRUE, pads |-> TRUE, arps |-> FALSE] }

Optional(S) == {Undefined} \cup {Def(v) : v \in S}

SettingsSpace ==
    [pace : Optional(Paces), mood : Optional(SettingMoods),
     instruments : Optional(InstrumentSets), customPrompt : Optional(Prompts)]

\* The request bodies: none at all, or a settings object
Bodies == Optional(SettingsSpace)

ProbeSamples == {0 - ProbeDen - 4, 0 - 3, 0, 1, ProbeDen, ProbeDen + 4}

----------------------------------------------------------------------------
(* The state machine *)

Init ==
    /\ generationCount = 0
    /\ phase = "idle"
    /\ settings = Undefined
    /\ outcome = "none"
    /\ path = "none"
    /\ analysis = Undefined
    /\ layers = <<>>
    /\ metadata = Undefined
    /\ wav = Undefined
    /\ probe = 0
    /\ draws = Undefined
    /\ first = Undefined
    /\ calls = [n \in 1..MaxCalls |->
                  [pc |-> "new", settings |-> Undefined, audioSeconds |-> Undefined,
                   metadata |-> Undefined]]
    /\ tracks = <<>>
    /\ issued = {}
    /\ live = {}
    /\ clock = 0
    /\ reply = [n |-> 0, op |-> "none", id |-> 0, result |-> Undefined]
    /\ renders = 0
    /\ fxPc = "idle"
    /\ fxSettings = Undefined
    /\ mixerChannels = <<>>
    /\ effectsStates = <<>>
    /\ channel = 0
    /\ sampleIndex = 0
    /\ effectLog = Undefined
    /\ written = [delay |-> <<>>, reverb |-> <<>>]
    /\ master = Undefined
    /\ moodCall = Undefined
    /\ synthLayer = Undefined
    /\ rendered = Undefined
    /\ chordCall = Undefined
    /\ evolvePc = "new"
    /\ population = <<>>
    /\ heap = [chords |-> <<>>, effects |-> <<>>]
    /\ elite = <<>>
    /\ eliteGenes = <<>>
    /\ newPopulation = <<>>

\* generateSong(musicSettings) settles with r
Settle(musicSettings, r, sample) ==
    /\ generationCount' = generationCount + 1
    /\ phase' = "done"
    /\ settings' = Def(musicSettings)
    /\ outcome' = r.outcome
    /\ path' = r.path
    /\ analysis' = r.analysis
    /\ layers' = r.layers
    /\ metadata' = r.metadata
    /\ wav' = r.wav
    /\ probe' = sample

\* POST /api/generate up to the settling of generateSong: musicSettings is
\* req.body || {}
PostGenerate(body, keyRnd, progRnd, sample) ==
    /\ LET musicSettings == IF body = Undefined THEN EmptySettings ELSE Get(body)
           r == generateSong(musicSettings, generationCount + 1, keyRnd, progRnd, sample)
       IN  Settle(musicSettings, r, sample)
    /\ UNCHANGED <<repeatVars, calls, storeVars, fxVars, stageVars>>

\* The rest of the handler: the track is stored and sent, or the error is
\* answered with status 500; the request's values go out of scope
Respond ==
    /\ phase = "done"
    /\ phase' = "idle"
    /\ settings' = Undefined
    /\ outcome' = "none"
    /\ path' = "none"
    /\ analysis' = Undefined
    /\ layers' = <<>>
    /\ metadata' = Undefined
    /\ wav' = Undefined
    /\ probe' = 0
    /\ UNCHANGED <<generationCount, repeatVars, calls, storeVars, fxVars, stageVars>>

\* A request is taken when no other is in the handler
Request ==
    /\ phase = "idle"
    /\ generationCount < MaxGenerations
    /\ \E body \in Bodies, keyRnd \in 0..3, progRnd \in 0..2, sample \in ProbeSamples :
          PostGenerate(body, keyRnd, progRnd, sample)

Next ==
    \/ Request
    \/ Respond

Spec == Init /\ [][Next]_vars

----------------------------------------------------------------------------
(* Calls repeated with the same settings and the same random draws *)

RepeatSettings ==
    [pace : {Undefined, Def(60)}, mood : {Undefined, Def("dark")},
     instruments : {Def(v) : v \in InstrumentSets},
     customPrompt : {Undefined, Def(<<"dark", "brooding">>)}]

\* Math.random() as a multiple of 1 / ProbeDen in [0, 1)
RandomDraws == 0..(ProbeDen - 1)

\* generateAtmosphericTexture: texture1 is (Math.random() - 0.5) times a
\* positive gain, texture2 and texture3 draw nothing.  The value is the
\* numerator over 2 * ProbeDen, in units of that gain and taken from the part
\* that draws nothing.
generateAtmosphericTexture(rnd) == 2 * rnd - ProbeDen

\* The texture layer is in every layer list.  What follows its generator up to
\* the encoder (envelope, filter, effects, mix, limiter) draws nothing and
\* grows with the layer's sample; the float it leaves at the probed index is
\* taken in the texture's own units
masteredSample(rnd) == generateAtmosphericTexture(rnd) \div 2

\* A generateSong call of a caller that holds the generator; keep says that
\* this call is the one later calls are compared with
GenerateSongCall(musicSettings, keyRnd, progRnd, sample, keep) ==
    /\ LET r == generateSong(musicSettings, generationCount + 1, keyRnd, progRnd, sample)
       IN  /\ Settle(musicSettings, r, sample)
           /\ first' = IF keep /\ first = Undefined
                        THEN Def([settings |-> musicSettings, draws |-> <<keyRnd, progRnd>>,
                                  probe |-> sample, outcome |-> r.outcome,
                                  path |-> r.path, analysis |-> r.analysis,
                                  layers |-> r.layers, metadata |-> r.metadata,
                                  wav |-> r.wav])
                        ELSE first
    /\ draws' = Def(<<keyRnd, progRnd>>)
    /\ UNCHANGED <<calls, storeVars, fxVars, stageVars>>

RepeatCall ==
    /\ phase = "idle"
    /\ generationCount < MaxGenerations
    /\ \E musicSettings \in RepeatSettings, keyRnd \in 0..1, progRnd \in 0..1,
          rnd \in {0, ProbeDen - 1}, keep \in BOOLEAN :
          GenerateSongCall(musicSettings, keyRnd, progRnd, masteredSample(rnd), keep)

NextRepeat ==
    \/ RepeatCall
    \/ Respond

SpecRepeat == Init /\ [][NextRepeat]_vars

----------------------------------------------------------------------------
(* Requests over every combination of the instrument toggles *)

ToggleSets == [drums : BOOLEAN, bass : BOOLEAN, synths : BOOLEAN, pads : BOOLEAN, arps : BOOLEAN]

ToggleSettings ==
    [pace : {Undefined}, mood : {Undefined}, instruments : {Def(v) : v \in ToggleSets},
     customPrompt : {Undefined, Def(<<"dark", "brooding">>)}]

ToggleRequest ==
    /\ phase = "idle"
    /\ generationCount < MaxGenerations
    /\ \E musicSettings \in ToggleSettings, keyRnd \in 0..1, progRnd \in 0..1 :
          PostGenerate(Def(musicSettings), keyRnd, progRnd, 1)

NextToggles ==
    \/ ToggleRequest
    \/ Respond

SpecToggles == Init /\ [][NextToggles]_vars

----------------------------------------------------------------------------
(* generateSong calls interleaved at their await points *)

ConcurrentSettings == {s \in RepeatSettings : s.mood = Undefined /\ s.customPrompt = Undefined}

oneCallVars == <<phase, settings, outcome, path, analysis, layers, metadata, wav, probe>>

\* (wav.length - 44) / 2 / 44100: the seconds of audio in a buffer
audioSeconds(w) == ((w.size - 44) \div 2) \div 44100

\* generateSong up to its first await: the counter is incremented and the
\* pipeline chosen; the call started n-th then waits for composeMusic or for
\* the rejection of the genetic generator
StartCall(musicSettings) ==
    /\ generationCount < MaxCalls
    /\ generationCount' = generationCount + 1
    /\ calls' = [calls EXCEPT ![generationCount + 1] =
                    [@ EXCEPT !.pc = IF (generationCount + 1) % 3 = 0 THEN "composing" ELSE "failing",
                              !.settings = Def(musicSettings)]]
    /\ UNCHANGED <<oneCallVars, repeatVars, storeVars, fxVars, stageVars>>

\* After await composeMusic: synthesizeNeuralComposition renders audio of
\* calculateDynamicDuration seconds, read off the counter as it is now
Synthesize(n) ==
    /\ calls[n].pc = "composing"
    /\ calls' = [calls EXCEPT ![n] =
                    [@ EXCEPT !.pc = "synthesized",
                              !.audioSeconds =
                                  Def(audioSeconds(synthesizeNeuralComposition(Get(calls[n].settings),
                                                                               generationCount, 1)))]]
    /\ UNCHANGED <<genVars, repeatVars, storeVars, fxVars, stageVars>>

\* After await synthesizeNeuralComposition: the metadata is computed, again
\* off the counter as it is now, and the call returns
ReturnNeural(n) ==
    /\ calls[n].pc = "synthesized"
    /\ calls' = [calls EXCEPT ![n] =
                    [@ EXCEPT !.pc = "returned",
                              !.metadata =
                                  Def([duration |-> calculateDynamicDuration(Get(calls[n].settings), generationCount),
                                       structure |-> generateEvolvedStructure(Get(calls[n].settings), generationCount)])]]
    /\ UNCHANGED <<genVars, repeatVars, storeVars, fxVars, stageVars>>

\* After the genetic generator rejected: the catch block runs
\* generateEnhancedFallback, which does not read the counter
ReturnFallback(n, keyRnd, progRnd) ==
    /\ calls[n].pc = "failing"
    /\ LET r == generateEnhancedFallback(Get(calls[n].settings), keyRnd, progRnd, 1)
       IN  calls' = [calls EXCEPT ![n] =
                       [@ EXCEPT !.pc = "returned",
                                 !.audioSeconds = Def(audioSeconds(Get(r.wav))),
                                 !.metadata = r.metadata]]
    /\ UNCHANGED <<genVars, repeatVars, storeVars, fxVars, stageVars>>

NextConcurrent ==
    \/ \E musicSettings \in ConcurrentSettings : StartCall(musicSettings)
    \/ \E n \in 1..MaxCalls : Synthesize(n)
    \/ \E n \in 1..MaxCalls : ReturnNeural(n)
    \/ \E n \in 1..MaxCalls, keyRnd \in 0..1, progRnd \in 0..1 : ReturnFallback(n, keyRnd, progRnd)

SpecConcurrent == Init /\ [][NextConcurrent]_vars

----------------------------------------------------------------------------
(* ProfessionalAudioRenderer: the per-layer effects chain *)

\* A float sample is kept as the integer count of 1 / FxUnit it holds; a
\* product is cut to that unit where the code rounds to the nearest double
FxUnit == 10000

\* The scaled-down lengths of the delay ring buffer (13230 in the code), of
\* the reverb ring buffer (22050) and of a layer buffer (duration * 44100)
DelayLength == 2
ReverbLength == 3
BufferLength == 4

\* n / d cut towards zero
Cut(n, d) == IF n >= 0 THEN n \div d ELSE 0 - ((0 - n) \div d)

\* Math.tanh on [0, oo) by the chords through its values at 0, 0.5, 1, 1.5,
\* 2, 3 and 4
tanhKnots == << <<0, 0>>, <<5000, 4621>>, <<10000, 7616>>, <<15000, 9051>>,
                <<20000, 9640>>, <<30000, 9951>>, <<40000, 9993>> >>

tanhUp(x) ==
    IF x >= 40000 THEN 9993 + Min(6, (x - 40000) \div 10000)
    ELSE LET k == CHOOSE j \in 1..6 : tanhKnots[j][1] <= x /\ x < tanhKnots[j + 1][1]
             x0 == tanhKnots[k][1]
             y0 == tanhKnots[k][2]
             x1 == tanhKnots[k + 1][1]
             y1 == tanhKnots[k + 1][2]
         IN  y0 + ((x - x0) * (y1 - y0)) \div (x1 - x0)

MathTanh(x) == IF x >= 0 THEN tanhUp(x) ELSE 0 - tanhUp(0 - x)

\* (settings.distortion || 20) / 100 in hundredths
distAmount(s) == OrDefault(s.distortion, 20)

\* tanh(sample * (1 + amount * 3)) * (1 - amount * 0.1), amount in hundredths
saturate(sample, amount) ==
    LET driven == Cut(sample * (100 + amount * 3), 100)
    IN  Cut(MathTanh(driven) * (1000 - amount), 1000)

applyDistortion(sample, s) ==
    IF distAmount(s) = 0 THEN sample ELSE saturate(sample, distAmount(s))

\* sample * (0.8 + 0.2 * sin(t * 0.3)) at t = i / 44100: over the indices of
\* a layer buffer of this length sin(x) is x to the unit
applyFilter(sample, i) == Cut(sample * (8000 + (i * 136) \div 10000), 10000)

\* sample * (1 + 0.02 * sin(2 * pi * 0.5 * t))
applyChorus(sample, i) == Cut(sample * (10000 + (i * 142) \div 10000), 10000)

\* buffer[index] with buffer a sequence: index counts from 0
Read(buffer, index) == buffer[index + 1]
Write(buffer, index, v) == [buffer EXCEPT ![index + 1] = v]

\* applyDelay with the write ahead of the read
applyDelay_writeBeforeRead(sample, state) ==
    LET fedBack == sample + Cut(Read(state.buffer, state.index) * 3, 10)
        buffer == Write(state.buffer, state.index, fedBack)
        delayedSample == Read(buffer, state.index)
    IN  [out |-> sample + Cut(delayedSample * 2, 10),
         state |-> [buffer |-> buffer, index |-> (state.index + 1) % Len(state.buffer)]]

\* The sample returned and the state left behind
applyDelay(sample, state) ==
    LET delayedSample == Read(state.buffer, state.index)
    IN  [out |-> sample + Cut(delayedSample * 2, 10),
         state |-> [buffer |-> Write(state.buffer, state.index, sample + Cut(delayedSample * 3, 10)),
                    index |-> (state.index + 1) % Len(state.buffer)]]

\* (settings.reverb || 70) / 100 in hundredths
reverbLevel(s) == OrDefault(s.reverb, 70)

applyReverb(sample, state, s) ==
    IF reverbLevel(s) = 0 THEN [out |-> sample, state |-> state]
    ELSE LET delayedSample == Read(state.buffer, state.index)
         IN  [out |-> sample + Cut(delayedSample * reverbLevel(s), 100),
              state |-> [buffer |-> Write(state.buffer, state.index,
                                          sample + Cut(delayedSample * reverbLevel(s) * 4, 1000)),
                         index |-> (state.index + 1) % Len(state.buffer)]]

Zeros(n) == [i \in 1..n |-> 0]

\* The object initializeEffectsChain returns: every call allocates a new one
FreshEffects ==
    [reverb |-> [buffer |-> Zeros(ReverbLength), index |-> 0],
     delay |-> [buffer |-> Zeros(DelayLength), index |-> 0]]

\* One effects object handed to every channel
initializeEffectsChain_shared(ch) == 1

\* The identity of the effects object allocated for mixer channel ch
initializeEffectsChain(ch) == ch

\* The loop body with the reverb ahead of the delay
effectsStep_reverbBeforeDelay(sample, i, state, s) ==
    LET distorted == applyDistortion(sample, s)
        filtered == applyFilter(distorted, i)
        chorused == applyChorus(filtered, i)
        reverbed == applyReverb(chorused, state.reverb, s)
        delayed == applyDelay(reverbed.out, state.delay)
    IN  [out |-> delayed.out,
         state |-> [reverb |-> reverbed.state, delay |-> delayed.state],
         distortion |-> [input |-> sample, output |-> distorted],
         delay |-> [input |-> reverbed.out, output |-> delayed.out,
                    written |-> Read(delayed.state.buffer, state.delay.index),
                    index |-> delayed.state.index],
         reverb |-> [input |-> chorused, output |-> reverbed.out,
                     written |-> Read(reverbed.state.buffer, state.reverb.index),
                     index |-> reverbed.state.index]]

\* One pass of the loop body of applyEffectsChain on buffer[i]
effectsStep(sample, i, state, s) ==
    LET distorted == applyDistortion(sample, s)
        filtered == applyFilter(distorted, i)
        chorused == applyChorus(filtered, i)
        delayed == applyDelay(chorused, state.delay)
        reverbed == applyReverb(delayed.out, state.reverb, s)
    IN  [out |-> reverbed.out,
         state |-> [reverb |-> reverbed.state, delay |-> delayed.state],
         distortion |-> [input |-> sample, output |-> distorted],
         delay |-> [input |-> chorused, output |-> delayed.out,
                    written |-> Read(delayed.state.buffer, state.delay.index),
                    index |-> delayed.state.index],
         reverb |-> [input |-> delayed.out, output |-> reverbed.out,
                     written |-> Read(reverbed.state.buffer, state.reverb.index),
                     index |-> reverbed.state.index]]

\* The settings the effects read
FxSettings ==
    [distortion : {Undefined, Def(0), Def(50), Def(100)},
     reverb : {Undefined, Def(0), Def(100)}]

\* What renderSynthLayer may leave in a layer buffer: an impulse, a steady
\* level, a signal that changes sign
LayerBuffers ==
    { [i \in 1..BufferLength |-> IF i = 1 THEN FxUnit ELSE 0],
      [i \in 1..BufferLength |-> FxUnit \div 2],
      [i \in 1..BufferLength |-> IF i % 2 = 1 THEN 0 - FxUnit ELSE 3000] }

notFxVars == <<genVars, repeatVars, calls, storeVars, stageVars>>

\* renderComposition up to the loop over the channels: every layer gets a
\* zeroed buffer and the effects object initializeEffectsChain returns
RenderComposition(nLayers, s) ==
    /\ fxPc = "idle"
    /\ renders < MaxRenders
    /\ renders' = renders + 1
    /\ fxSettings' = Def(s)
    /\ mixerChannels' = [k \in 1..nLayers |->
                            [buffer |-> Zeros(BufferLength), input |-> Zeros(BufferLength),
                             effects |-> initializeEffectsChain(k)]]
    /\ effectsStates' = [id \in {initializeEffectsChain(k) : k \in 1..nLayers} |-> FreshEffects]
    /\ channel' = 1
    /\ fxPc' = "layer"
    /\ sampleIndex' = 0
    /\ effectLog' = Undefined
    /\ written' = [delay |-> <<>>, reverb |-> <<>>]
    /\ UNCHANGED notFxVars

\* await this.renderSynthLayer(channel.buffer, ...): the layer's samples
RenderSynthLayer(samples) ==
    /\ fxPc = "layer"
    /\ mixerChannels' = [mixerChannels EXCEPT ![channel].buffer = samples,
                                             ![channel].input = samples]
    /\ fxPc' = "effects"
    /\ sampleIndex' = 0
    /\ effectLog' = Undefined
    /\ written' = [delay |-> <<>>, reverb |-> <<>>]
    /\ UNCHANGED <<renders, fxSettings, effectsStates, channel, notFxVars>>

\* One pass of the loop of applyEffectsChain over the channel's buffer; after
\* the last one the loop over the channels moves on
ApplyEffectsStep ==
    /\ fxPc = "effects"
    /\ LET id == mixerChannels[channel].effects
           r == effectsStep(Read(mixerChannels[channel].buffer, sampleIndex), sampleIndex,
                            effectsStates[id], Get(fxSettings))
       IN  /\ mixerChannels' = [mixerChannels EXCEPT ![channel].buffer =
                                    Write(mixerChannels[channel].buffer, sampleIndex, r.out)]
           /\ effectsStates' = [effectsStates EXCEPT ![id] = r.state]
           /\ effectLog' = Def([i |-> sampleIndex, distortion |-> r.distortion,
                                 delay |-> r.delay, reverb |-> r.reverb])
           /\ written' = [delay |-> Append(written.delay, r.delay.written),
                           reverb |-> Append(written.reverb, r.reverb.written)]
    /\ sampleIndex' = sampleIndex + 1
    /\ IF sampleIndex + 1 < BufferLength
       THEN UNCHANGED <<fxPc, channel>>
       ELSE IF channel < Len(mixerChannels)
            THEN fxPc' = "layer" /\ channel' = channel + 1
            ELSE fxPc' = "mix" /\ UNCHANGED channel
    /\ UNCHANGED <<renders, fxSettings, notFxVars>>

\* mixLayers, applyMasteringChain and createWAVBuffer read the channel
\* buffers; the render returns and its buffers and effects objects are dropped
MixAndReturn ==
    /\ fxPc = "mix"
    /\ fxPc' = "idle"
    /\ fxSettings' = Undefined
    /\ mixerChannels' = <<>>
    /\ effectsStates' = <<>>
    /\ channel' = 0
    /\ sampleIndex' = 0
    /\ effectLog' = Undefined
    /\ written' = [delay |-> <<>>, reverb |-> <<>>]
    /\ UNCHANGED <<renders, notFxVars>>

NextEffects ==
    \/ \E nLayers \in 1..MaxLayers, s \in FxSettings : RenderComposition(nLayers, s)
    \/ \E samples \in LayerBuffers : RenderSynthLayer(samples)
    \/ ApplyEffectsStep
    \/ MixAndReturn

SpecEffects == Init /\ [][NextEffects]_vars

----------------------------------------------------------------------------
(* ProfessionalAudioRenderer: the mastering chain *)

\* A master sample is kept as the integer count of 1 / MasterUnit it holds
MasterUnit == 1000

\* The body of the loop of applyMasteringChain at index i of a buffer of the
\* given length: the two fade gains as <<numerator, denominator>> (<<1, 1>>
\* where the code leaves the sample alone) and the limited sample
applyMasteringChain(sample, i, length, s) ==
    LET fadeInSamples == OrDefault(s.fadeIn, 3) * SAMPLE_RATE
        fadeOutSamples == OrDefault(s.fadeOut, 3) * SAMPLE_RATE
        gainIn == IF i < fadeInSamples THEN <<i, fadeInSamples>> ELSE <<1, 1>>
        gainOut == IF i > length - fadeOutSamples
                   THEN <<length - i, fadeOutSamples>> ELSE <<1, 1>>
        fadedIn == Cut(sample * gainIn[1], gainIn[2])
        faded == Cut(fadedIn * gainOut[1], gainOut[2])
        \* Math.tanh(sample * 1.2) * 0.8
        limited == Cut(MathTanh(faded * 12) * 8, 100)
    IN  [fadeIn |-> gainIn, fadeOut |-> gainOut, out |-> limited]

\* applyMasteringChain on the master buffer of a render of duration seconds,
\* followed at one index of one render: the fade settings are whole seconds in 0..10 or
\* absent, the indices lie around the ends of the two ramps
ApplyMasteringChain ==
    /\ master = Undefined
    /\ \E fadeIn \in {Undefined, Def(0), Def(1), Def(3), Def(10)},
          fadeOut \in {Undefined, Def(0), Def(1), Def(3), Def(10)},
          duration \in {120, 300},
          sample \in {0 - MasterUnit, MasterUnit \div 2, MasterUnit} :
          LET length == duration * SAMPLE_RATE
              s == [fadeIn |-> fadeIn, fadeOut |-> fadeOut]
          IN  \E i \in {0, 1, SAMPLE_RATE \div 2, SAMPLE_RATE - 1, SAMPLE_RATE,
                        3 * SAMPLE_RATE - 1, 3 * SAMPLE_RATE, 10 * SAMPLE_RATE,
                        length - 10 * SAMPLE_RATE, length - 3 * SAMPLE_RATE,
                        length - 3 * SAMPLE_RATE + 1, length - SAMPLE_RATE,
                        length - SAMPLE_RATE \div 2, length - 1} :
                 /\ master' = Def([settings |-> s, length |-> length, i |-> i, sample |-> sample,
                                   result |-> applyMasteringChain(sample, i, length, s)])
                 /\ UNCHANGED <<genVars, repeatVars, calls, storeVars, fxVars, moodCall, synthLayer, rendered, chordCall, geneVars>>

SpecMaster == Init /\ [][ApplyMasteringChain]_vars

----------------------------------------------------------------------------
(* MusicTheoryEngine: mood extraction on its own *)

\* analyzePromptAdvanced up to the call of extractAdvancedMood: the prompt is
\* lowercased and split into words, and the mood is taken from the words
ExtractAdvancedMood ==
    /\ moodCall = Undefined
    /\ LET vocabulary == {"ethereal", "nostalgic", "dark", "Dark", "happy", "sad", "ghostly",
                          "retro", "dreamy", "piano", "slow"}
       IN  \E prompt \in {<<>>} \cup {<<a>> : a \in vocabulary}
                          \cup {<<a, b>> : a \in vocabulary, b \in vocabulary} :
              LET words == MapToLower(prompt)
              IN  moodCall' = Def([words |-> words, mood |-> extractAdvancedMood(words)])
    /\ UNCHANGED <<genVars, repeatVars, calls, storeVars, fxVars, master, synthLayer, rendered, chordCall, geneVars>>

SpecMood == Init /\ [][ExtractAdvancedMood]_vars

----------------------------------------------------------------------------
(* One synth layer from its constructor to the mix *)

\* Pattern entries are kept in tenths, volumes in hundredths, samples in
\* units of 1 / FxUnit

generateBassPattern(tempo) ==
    [n \in 1..64 |->
        LET i == n - 1
        IN  IF i \in {0, 16, 32, 48} THEN 10
            ELSE IF tempo > 100 /\ i \in {6, 22, 38, 54} THEN 7
            ELSE 0]

generateArpeggioPattern(scale, tempo) ==
    LET stepSize == IF tempo < 80 THEN 8 ELSE IF tempo > 120 THEN 4 ELSE 6
    IN  [n \in 1..64 |->
            LET i == n - 1
            IN  IF i % stepSize = 0
                THEN 10 * scale[((i \div stepSize) % Len(scale)) + 1]
                ELSE 0]

\* The kicks are written first, then the hi-hats, then the snares; the three
\* sets of steps do not meet
generateTrapPattern(tempo) ==
    [n \in 1..64 |->
        LET i == n - 1
        IN  IF i \in {16, 48} THEN 9
            ELSE IF i % 8 = 4 THEN 3
            ELSE IF i \in {0, 32} THEN 10
            ELSE IF i \in {24, 56} THEN 8
            ELSE 0]

\* createChordPadLayer, createProfessionalBassLayer, createArpeggioLayer,
\* createTrapPercussionLayer, createSynthLeadLayer and createAtmosphericLayer
createLayer(type, a, s) ==
    CASE type = "pad" -> [type |-> type, pattern |-> Undefined, volume |-> 40]
      [] type = "bass" -> [type |-> type, pattern |-> Def(generateBassPattern(a.tempo)),
                           volume |-> s.bass]
      [] type = "arp" -> [type |-> type, pattern |-> Def(generateArpeggioPattern(a.scale, a.tempo)),
                          volume |-> 25]
      [] type = "percussion" -> [type |-> type, pattern |-> Def(generateTrapPattern(a.tempo)),
                                 volume |-> 30]
      [] type = "lead" -> [type |-> type, pattern |-> Undefined, volume |-> 20]
      [] type = "texture" -> [type |-> type, pattern |-> Undefined, volume |-> 15]

\* generatePercussion at a time that falls in step stepIndex of the pattern;
\* percSignal is what the voice chosen produces there
generatePercussion(stepIndex, layer, percSignal) ==
    LET patternValue == Get(layer.pattern)[stepIndex + 1]
        voice == IF patternValue = 0 THEN "silent"
                 ELSE IF patternValue = 10 THEN "kick"
                 ELSE IF patternValue > 5 THEN "snare"
                 ELSE "hihat"
    IN  [voice |-> voice,
         out |-> IF patternValue = 0 THEN 0
                 ELSE Cut(Cut(percSignal * patternValue, 10) * layer.volume, 100)]

\* The switch of renderSynthLayer on layer.type and the return of the
\* generator it calls; signal is the generator's signal ahead of the gains of
\* its return statement
generateLayerSample(stepIndex, layer, signal) ==
    CASE layer.type = "pad" -> [voice |-> "pad", out |-> Cut(signal * 3, 10)]
      [] layer.type = "bass" ->
            LET patternValue == Get(layer.pattern)[stepIndex + 1]
            IN  [voice |-> "bass",
                 out |-> IF patternValue = 0 THEN 0
                         ELSE Cut(Cut(signal * patternValue, 10) * layer.volume, 100)]
      [] layer.type = "percussion" -> generatePercussion(stepIndex, layer, signal)
      [] OTHER -> [voice |-> layer.type, out |-> Cut(signal * layer.volume, 100)]

\* createSynthLayers builds one of its layers for an analysis and the settings
CreateSynthLayer ==
    /\ synthLayer = Undefined
    /\ \E type \in {"pad", "bass", "arp", "percussion", "lead", "texture"},
          tempo \in {60, 100, 130},
          scaleName \in {"natural-minor", "dorian"},
          bass \in {0, 50, 100} :
          synthLayer' = Def(createLayer(type, [tempo |-> tempo, scale |-> SCALES(scaleName)],
                                        [bass |-> bass]))
    /\ UNCHANGED <<genVars, repeatVars, calls, storeVars, fxVars, master, moodCall, rendered, chordCall, geneVars>>

\* One sample of the layer from renderSynthLayer to mixLayers: the generator
\* returns it, the envelope, the layer filter and the effects chain pass it on
\* with the gain through (in hundredths), and mixLayers adds
\* channel.buffer[i] * channel.layer.volume to the mixed sample
RenderLayerSample ==
    /\ synthLayer # Undefined
    /\ rendered = Undefined
    /\ \E stepIndex \in 0..63, signal \in {FxUnit, 0 - FxUnit \div 2}, through \in {100, 50} :
          LET layer == Get(synthLayer)
              generated == generateLayerSample(stepIndex, layer, signal)
              channelSample == Cut(generated.out * through, 100)
          IN  rendered' = Def([stepIndex |-> stepIndex, signal |-> signal, through |-> through,
                               voice |-> generated.voice, generated |-> generated.out,
                               mixTerm |-> Cut(channelSample * layer.volume, 100)])
    /\ UNCHANGED <<genVars, repeatVars, calls, storeVars, fxVars, master, moodCall, synthLayer, chordCall, geneVars>>

NextLayers ==
    \/ CreateSynthLayer
    \/ RenderLayerSample

SpecLayers == Init /\ [][NextLayers]_vars

----------------------------------------------------------------------------
(* ProfessionalAudioRenderer: the chord of a sample *)

\* Math.floor(t / barLength) for t = i / 44100 and barLength = 4 / (tempo / 60):
\* the whole bars of 240 / tempo seconds before sample i.  t and barLength are
\* doubles; for the tempos 42, 60, 85 and 126 and the indices of a buffer of
\* up to 300 seconds the double quotient lies on the other side of a whole
\* number only at these samples of tempo 42, which sit on a bar line and fall
\* to the bar before
barsElapsed(i, tempo) ==
    LET seconds == i \div SAMPLE_RATE
        rest == i % SAMPLE_RATE
        exact == (seconds * tempo + (rest * tempo) \div SAMPLE_RATE) \div 240
    IN  IF tempo = 42 /\ i \in {3780000, 5796000, 6804000, 7560000, 11592000, 11844000}
        THEN exact - 1
        ELSE exact

\* The chord held for every bar
getCurrentChord_noRotation(i, tempo, progression) ==
    progression[Min(barsElapsed(i, tempo), Len(progression) - 1) + 1]

getCurrentChord(i, tempo, progression) ==
    LET barIndex == barsElapsed(i, tempo) % Len(progression)
    IN  progression[barIndex + 1]

\* The loop body of renderSynthLayer up to the call of getCurrentChord, at the
\* sample offset samples after the first sample of bar number bar
GetCurrentChord ==
    /\ chordCall = Undefined
    /\ \E tempo \in {42, 60, 85, 126}, bar \in 0..23, offset \in {0 - 1, 0, 1},
          progression \in {<<"vi", "IV", "I", "V">>, <<"i", "VI", "III", "VII">>} :
          LET barLine == bar * 240 * SAMPLE_RATE
              i == (barLine + tempo - 1) \div tempo + offset
          IN  /\ i >= 0
              /\ chordCall' = Def([tempo |-> tempo, bar |-> bar, offset |-> offset, i |-> i,
                                   onBarLine |-> offset = 0 /\ barLine % tempo = 0,
                                   progression |-> progression,
                                   chord |-> getCurrentChord(i, tempo, progression)])
    /\ UNCHANGED <<genVars, repeatVars, calls, storeVars, fxVars, master, moodCall, synthLayer,
                   rendered, geneVars>>

SpecChord == Init /\ [][GetCurrentChord]_vars

----------------------------------------------------------------------------
(* AdvancedMusicGenerator: the genetic population *)

\* POPULATION_SIZE (20 in the code) and ELITE_SIZE (4 in the code), scaled down
POPULATION_SIZE == 3
ELITE_SIZE == 2

\* A genome holds references: chordProgression is the index of an array in
\* heap.chords and effectsGenetics the index of an object in heap.effects.
\* The genes followed are the chord progression and the reverb of the
\* effects; the other genes are values the steps below copy or blend.

\* this.CHORD_PROGRESSIONS.signature and .variation1: randomChordProgression
\* returns one of these arrays itself
AdvancedProgressions ==
    << << [root |-> 0, type |-> "minor", extensions |-> <<"add9">>],
          [root |-> 5, type |-> "minor", extensions |-> <<"sus2">>],
          [root |-> 8, type |-> "major", extensions |-> <<"add9">>],
          [root |-> 3, type |-> "major", extensions |-> <<"sus4">>] >>,
       << [root |-> 0, type |-> "minor", extensions |-> <<>>],
          [root |-> 3, type |-> "major", extensions |-> <<"add9">>],
          [root |-> 8, type |-> "major", extensions |-> <<"sus2">>],
          [root |-> 2, type |-> "minor", extensions |-> <<"add9">>] >> >>

\* sub is the substitution drawn and, for the second and third, the extension
\* or chord type drawn with it; the result is a new object
applyChordSubstitution(chord, sub) ==
    CASE sub = "tritone" -> [chord EXCEPT !.root = (chord.root + 6) % 12, !.type = "dominant7"]
      [] sub \in {"add9", "sus2", "sus4", "add11"} ->
            [chord EXCEPT !.extensions = Append(chord.extensions, sub)]
      [] sub \in {"minor7", "major7", "minor9", "major9"} -> [chord EXCEPT !.type = sub]

\* mutate(genome): m.chord is undefined or the index and substitution drawn,
\* m.reverb undefined or the change of reverb drawn.  The assignments go to
\* the array and the object the genome refers to; the result is the heap
mutate(genome, h, m) ==
    LET h1 == IF m.chord = Undefined THEN h
              ELSE LET c == Get(m.chord)
                   IN  [h EXCEPT !.chords[genome.chordProgression][c.randomIndex + 1] =
                                     applyChordSubstitution(@, c.sub)]
    IN  IF m.reverb = Undefined THEN h1
        ELSE [h1 EXCEPT !.effects[genome.effectsGenetics].reverb =
                            Max(0, Min(100, @ + Get(m.reverb)))]

\* crossover(parent1, parent2): the offspring gets a new array made of slices
\* of the parents' arrays and a new effects object blended from theirs
crossover(parent1, parent2, h, crossoverPoint) ==
    LET a == h.chords[parent1.chordProgression]
        b == h.chords[parent2.chordProgression]
        blended == (h.effects[parent1.effectsGenetics].reverb
                    + h.effects[parent2.effectsGenetics].reverb) \div 2
    IN  [genome |-> [chordProgression |-> Len(h.chords) + 1,
                     effectsGenetics |-> Len(h.effects) + 1],
         heap |-> [chords |-> Append(h.chords, SubSeq(a, 1, crossoverPoint)
                                               \o SubSeq(b, crossoverPoint + 1, Len(b))),
                   effects |-> Append(h.effects, [reverb |-> blended])]]

\* The constructor: initializePopulation gives every genome one of the arrays
\* of CHORD_PROGRESSIONS and an effects object of its own
InitializePopulation ==
    /\ evolvePc = "new"
    /\ \E drawn \in [1..POPULATION_SIZE -> 1..Len(AdvancedProgressions)] :
          /\ population' = [k \in 1..POPULATION_SIZE |->
                               [chordProgression |-> drawn[k], effectsGenetics |-> k]]
          /\ heap' = [chords |-> AdvancedProgressions,
                      effects |-> [k \in 1..POPULATION_SIZE |-> [reverb |-> 60 + 10 * k]]]
    /\ evolvePc' = "ready"
    /\ UNCHANGED <<elite, eliteGenes, newPopulation>>
    /\ UNCHANGED <<genVars, repeatVars, calls, storeVars, fxVars>>
    /\ UNCHANGED <<master, moodCall, synthLayer, rendered, chordCall>>

\* evolvePopulation up to its loop: evaluateFitness, selectElite and
\* newPopulation = [...elite].  The fitness depends on genes drawn at random
\* that are not followed here (rhythm density, bass level, melody), so the
\* genomes can come out in any order: fittest lists the ELITE_SIZE fittest
SelectElite ==
    /\ evolvePc = "ready"
    /\ \E fittest \in [1..ELITE_SIZE -> 1..POPULATION_SIZE] :
          /\ \A j, k \in 1..ELITE_SIZE : j # k => fittest[j] # fittest[k]
          /\ elite' = [k \in 1..ELITE_SIZE |-> population[fittest[k]]]
          /\ eliteGenes' = [k \in 1..ELITE_SIZE |->
                               [chordProgression |->
                                    heap.chords[population[fittest[k]].chordProgression],
                                effectsGenetics |->
                                    heap.effects[population[fittest[k]].effectsGenetics]]]
          /\ newPopulation' = [k \in 1..ELITE_SIZE |-> population[fittest[k]]]
    /\ evolvePc' = "breeding"
    /\ UNCHANGED <<population, heap>>
    /\ UNCHANGED <<genVars, repeatVars, calls, storeVars, fxVars>>
    /\ UNCHANGED <<master, moodCall, synthLayer, rendered, chordCall>>

\* One pass of the loop of evolvePopulation: tournamentSelection can return
\* any genome of the population; crossed and mutated are the outcomes of the
\* draws against CROSSOVER_RATE and MUTATION_RATE.  After the last pass
\* this.population = newPopulation
Breed ==
    /\ evolvePc = "breeding"
    /\ \E p1, p2 \in 1..POPULATION_SIZE, crossed \in BOOLEAN, mutated \in BOOLEAN,
          crossoverPoint \in {0, 2},
          chord \in {Undefined} \cup {Def([randomIndex |-> i, sub |-> s]) :
                                         i \in {0, 3}, s \in {"tritone", "add9", "minor7"}},
          reverb \in {Undefined, Def(0 - 5), Def(5)} :
          LET m == [chord |-> chord, reverb |-> reverb]
              parent1 == population[p1]
              parent2 == population[p2]
              c == crossover(parent1, parent2, heap, crossoverPoint)
              offspring == IF crossed THEN c.genome ELSE parent1
              after == IF crossed
                       THEN IF mutated THEN mutate(c.genome, c.heap, m) ELSE c.heap
                       ELSE mutate(parent1, heap, m)
              grown == Append(newPopulation, offspring)
          IN  /\ heap' = after
              /\ newPopulation' = grown
              /\ IF Len(grown) < POPULATION_SIZE
                 THEN UNCHANGED <<evolvePc, population>>
                 ELSE evolvePc' = "done" /\ population' = grown
    /\ UNCHANGED <<elite, eliteGenes>>
    /\ UNCHANGED <<genVars, repeatVars, calls, storeVars, fxVars>>
    /\ UNCHANGED <<master, moodCall, synthLayer, rendered, chordCall>>

NextEvolve ==
    \/ InitializePopulation
    \/ SelectElite
    \/ Breed

SpecEvolve == Init /\ [][NextEvolve]_vars

----------------------------------------------------------------------------
(* MemStorage *)

Ids == 1..MaxTracks

\* The ids without regard to the earlier draws
randomUUID_anyId(used) == Ids

\* randomUUID(): a version 4 UUID, 122 random bits; a draw that repeats an
\* earlier one is not followed
randomUUID(used) == Ids \ used

defaultSettings == "defaultSettings"

\* What the route hands to createTrack
InsertTracks == [title : {"Neural Dreamscape #3", "Ambient Tears #7"},
                 settings : {Undefined, Def("musicSettings")}]

\* Map.prototype.get
MapGet(map, key) == IF key \in DOMAIN map THEN Def(map[key]) ELSE Undefined

\* this.tracks.get(id)
getTrack(id) == MapGet(tracks, id)

CreateTrack(insertTrack) ==
    /\ reply.n < MaxOps
    /\ \E id \in randomUUID(issued) :
          LET track == [title |-> insertTrack.title,
                        settings |-> IF insertTrack.settings = Undefined THEN defaultSettings
                                     ELSE Get(insertTrack.settings),
                        id |-> id,
                        createdAt |-> clock]
          IN  /\ tracks' = [i \in DOMAIN tracks \cup {id} |-> IF i = id THEN track ELSE tracks[i]]
              /\ issued' = issued \cup {id}
              /\ live' = live \cup {id}
              /\ reply' = [n |-> reply.n + 1, op |-> "createTrack", id |-> id, result |-> Def(track)]
    /\ \E passed \in {0, 1} : clock' = clock + passed
    /\ UNCHANGED <<genVars, repeatVars, calls, fxVars, stageVars>>

\* this.tracks.delete(id)
DeleteTrack(id) ==
    /\ reply.n < MaxOps
    /\ tracks' = [i \in DOMAIN tracks \ {id} |-> tracks[i]]
    /\ live' = live \ {id}
    /\ reply' = [n |-> reply.n + 1, op |-> "deleteTrack", id |-> id, result |-> Def(id \in DOMAIN tracks)]
    /\ UNCHANGED <<issued, clock, genVars, repeatVars, calls, fxVars, stageVars>>

GetTrack(id) ==
    /\ reply.n < MaxOps
    /\ reply' = [n |-> reply.n + 1, op |-> "getTrack", id |-> id, result |-> getTrack(id)]
    /\ UNCHANGED <<tracks, issued, live, clock, genVars, repeatVars, calls, fxVars, stageVars>>

NextStorage ==
    \/ \E insertTrack \in InsertTracks : CreateTrack(insertTrack)
    \/ \E id \in Ids : DeleteTrack(id)
    \/ \E id \in Ids : GetTrack(id)

SpecStorage == Init /\ [][NextStorage]_vars

----------------------------------------------------------------------------
(* Properties of the generation service *)

\* The state after generateSong settled for a request
Settled == phase = "done"
Succeeded == Settled /\ outcome = "ok"
Analysed == Settled /\ analysis # Undefined

request == Get(settings)
resolved == Get(analysis)
meta == Get(metadata)
buffer == Get(wav)

SomeFieldMissing ==
    \/ request.pace = Undefined
    \/ request.mood = Undefined
    \/ request.instruments = Undefined
    \/ request.customPrompt = Undefined

\* C1: a settings object with missing fields, the empty object of an absent
\* request body included, yields a WAV buffer with metadata on either path and
\* for every value of the generation counter; it never yields a failure.
C1_MissingFieldsGetDefaults ==
    (Settled /\ SomeFieldMissing) =>
        (outcome = "ok" /\ wav # Undefined /\ metadata # Undefined)

\* C2: for every prompt, whichever mood the analyzer resolves, the resolver
\* returns a progression of four chords and does not fail.
C2_ProgressionForEveryMood ==
    (Settled /\ path = "professional") =>
        (analysis # Undefined /\ Len(resolved.chordProgression) = 4)

SectionOrder == <<"intro", "verse", "hook", "bridge", "outro">>

\* C3: in the structure of every successful generation the sections start at
\* 0, each starts where the previous one ends, each ends after it starts, and
\* outro.end is metadata.duration.
C3_StructureTilesDuration ==
    Succeeded =>
        LET st == meta.structure
        IN  /\ st.intro.start = 0
            /\ \A i \in 1..4 : st[SectionOrder[i + 1]].start = st[SectionOrder[i]].end
            /\ \A i \in 1..5 : st[SectionOrder[i]].end > st[SectionOrder[i]].start
            /\ st.outro.end = meta.duration * st.den

\* C4: for every successful generateSong call, on either path and for every
\* counter value, mood and pace, metadata.duration is an integer in [90,180].
C4_DurationInRange ==
    Succeeded => meta.duration \in 90..180

\* A professional generation whose raw duration lies above the range
C4_Witness ==
    /\ Succeeded
    /\ path = "professional"
    /\ resolved.tempo < 80
    /\ meta.duration = 180

\* C5: for every pace in [60,180] and every prompt the resolved tempo is
\* round(pace x multiplier) clamped to [53,180].
C5_TempoClamped ==
    Analysed =>
        LET words == MapToLower(createCustomPrompt(request))
            rounded == calculateProfessionalTempo(words, OrDefault(request.pace, 85))
        IN  /\ resolved.tempo = Max(53, Min(180, rounded))
            /\ resolved.tempo \in 53..180

\* C6: when settings.mood is set, the mood of the resolved analysis is
\* settings.mood, whatever the custom prompt says and also without one.
C6_ExplicitMoodWins ==
    (Analysed /\ request.mood # Undefined) =>
        resolved.mood = Get(request.mood)

ScaleOfMood(mood) ==
    CASE mood = "dark" -> <<0, 1, 3, 5, 7, 8, 10>>
      [] mood = "uplifting" -> <<0, 2, 4, 5, 7, 9, 11>>
      [] mood \in {"dreamy", "melancholic", "nostalgic"} -> <<0, 2, 3, 5, 7, 8, 10>>
      [] mood = "ethereal" -> <<0, 2, 3, 5, 7, 9, 10>>

UniqueSemitones(scale) ==
    /\ \A i \in 1..Len(scale) : scale[i] \in 0..11
    /\ \A i, j \in 1..Len(scale) : i # j => scale[i] # scale[j]

\* C7: the scale of every analysis the resolver produces is the one mapped
\* from its mood (dark: phrygian, uplifting: major, dreamy, melancholic and
\* nostalgic: natural minor, ethereal: dorian), of unique semitones in 0..11;
\* the mapping itself gives these scales for each of the six moods.
C7_ScaleFollowsMood ==
    /\ \A mood \in Moods :
          selectScale(mood) = ScaleOfMood(mood) /\ UniqueSemitones(selectScale(mood))
    /\ Analysed =>
          /\ resolved.scale = ScaleOfMood(resolved.mood)
          /\ UniqueSemitones(resolved.scale)

\* An analysis resolved for a dark prompt
C7_Witness ==
    /\ Analysed
    /\ resolved.mood = "dark"
    /\ resolved.scale = <<0, 1, 3, 5, 7, 8, 10>>

\* C8: every chord of every resolved progression has exactly three intervals,
\* each a defined integer semitone in 0..11, the first the chord's root.
C8_TriadsAreSemitones ==
    Analysed =>
        \A i \in 1..Len(resolved.chordProgression) :
            LET intervals == resolved.chordProgression[i].intervals
            IN  /\ Len(intervals) = 3
                /\ \A k \in 1..3 : intervals[k] # Undefined /\ Get(intervals[k]) \in 0..11

readUInt32LE(bytes, offset) ==
    bytes[offset + 1] + 256 * bytes[offset + 2] + 65536 * bytes[offset + 3]
        + 16777216 * bytes[offset + 4]
readUInt16LE(bytes, offset) == bytes[offset + 1] + 256 * bytes[offset + 2]

\* C9: for audio of n = metadata.duration x 44100 samples the WAV buffer has
\* length 44 + 2n, and its header reads RIFF size 36 + 2n, fmt chunk size 16,
\* format 1, 1 channel, sample rate 44100, byte rate 88200, block align 2,
\* 16 bits per sample and data size 2n.
C9_WavHeaderMatchesAudio ==
    Succeeded =>
        LET n == meta.duration * 44100
            h == buffer.header
        IN  /\ buffer.size = 44 + 2 * n
            /\ Len(h) = 44
            /\ readUInt32LE(h, 4) = 36 + 2 * n
            /\ readUInt32LE(h, 16) = 16
            /\ readUInt16LE(h, 20) = 1
            /\ readUInt16LE(h, 22) = 1
            /\ readUInt32LE(h, 24) = 44100
            /\ readUInt32LE(h, 28) = 88200
            /\ readUInt16LE(h, 32) = 2
            /\ readUInt16LE(h, 34) = 16
            /\ readUInt32LE(h, 40) = 2 * n

\* A rendered composition of the longest duration
C9_Witness ==
    /\ Succeeded
    /\ path = "professional"
    /\ meta.duration = 180
    /\ buffer.size = 44 + 2 * 180 * 44100

\* round(clamp(sample, -1, 1) x 32767) as a little-endian signed 16-bit integer
RoundedSample(num) ==
    LET v == MathRound(Max(0 - ProbeDen, Min(ProbeDen, num)) * 32767, ProbeDen)
    IN  <<v % 256, (v \div 256) % 256>>

\* C10: on either generation path each 16-bit sample of the WAV is
\* round(clamp(sample, -1, 1) x 32767): rounded to nearest, not cut.
C10_SamplesRounded ==
    Succeeded => buffer.data = RoundedSample(probe)

readInt16LE(bytes) ==
    LET u == bytes[1] + 256 * bytes[2]
    IN  IF u >= 32768 THEN u - 65536 ELSE u

\* C11: every sample stored in the WAV lies in [-32767, 32767], whatever the
\* float handed to the encoder: a value beyond 1 is stored as 32767 and a
\* value below -1 as -32767, on either path.
C11_StoredSampleInRange ==
    Succeeded =>
        LET stored == readInt16LE(buffer.data)
        IN  /\ stored \in (0 - 32767)..32767
            /\ probe >= ProbeDen => stored = 32767
            /\ probe <= 0 - ProbeDen => stored = 0 - 32767

\* A professional render whose mastered sample lies above 1
C11_Witness ==
    /\ Succeeded
    /\ path = "professional"
    /\ probe > ProbeDen
    /\ readInt16LE(buffer.data) = 32767

\* C12: two generateSong calls on one MusicGenerator with the same settings
\* and the same random draws return the same metadata (duration and
\* structure), however many calls came before each of them.
C12_SameInputsSameMetadata ==
    (/\ Succeeded
     /\ first # Undefined
     /\ Get(first).outcome = "ok"
     /\ Get(first).settings = request
     /\ Get(first).draws = Get(draws)
     /\ Get(first).probe = probe)
    => (/\ meta.duration = Get(Get(first).metadata).duration
        /\ meta.structure = Get(Get(first).metadata).structure)

\* C13: when generateSong calls on one MusicGenerator interleave at their
\* await points, the seconds of audio each call rendered are the duration of
\* that call's own metadata, and its structure ends at that duration.
C13_CallOwnsItsDuration ==
    \A n \in 1..MaxCalls :
        calls[n].pc = "returned" =>
            LET md == Get(calls[n].metadata)
            IN  /\ Get(calls[n].audioSeconds) = md.duration
                /\ md.structure.outro.end = md.duration * md.structure.den

\* C14: for the same analysis, the same synth layers, the same settings and
\* the same duration, rendering the composition twice yields the same
\* buffer: no layer generator and no effect draws from a random source.
C14_RenderIsDeterministic ==
    (/\ Succeeded
     /\ path = "professional"
     /\ first # Undefined
     /\ Get(first).outcome = "ok"
     /\ Get(first).path = "professional"
     /\ Get(first).settings = request
     /\ Get(first).analysis = analysis
     /\ Get(first).layers = layers
     /\ Get(first).metadata = metadata)
    => Get(first).wav = wav

Count(seq, v) == Cardinality({i \in 1..Len(seq) : seq[i] = v})

\* C15: for each of the 32 combinations of the instrument toggles the layer
\* list holds exactly one texture layer, and one pad, bass, arp, percussion
\* or lead layer exactly when pads, bass, arps, drums or synths is enabled
\* (none otherwise); with every toggle off it is the texture layer alone.
C15_LayersFollowToggles ==
    (Succeeded /\ path = "professional") =>
        LET inst == Get(request.instruments)
            One(b) == IF b THEN 1 ELSE 0
        IN  /\ Count(layers, "texture") = 1
            /\ Count(layers, "pad") = One(inst.pads)
            /\ Count(layers, "bass") = One(inst.bass)
            /\ Count(layers, "arp") = One(inst.arps)
            /\ Count(layers, "percussion") = One(inst.drums)
            /\ Count(layers, "lead") = One(inst.synths)
            /\ Len(layers) = 1 + One(inst.pads) + One(inst.bass) + One(inst.arps)
                                + One(inst.drums) + One(inst.synths)

\* A professional generation with every toggle off
C15_Witness ==
    /\ Succeeded
    /\ path = "professional"
    /\ \A t \in {"drums", "bass", "synths", "pads", "arps"} : ~Get(request.instruments)[t]
    /\ layers = <<"texture">>

\* C17: the generation counter grows by exactly one per generateSong call,
\* and the n-th call takes the neural composer exactly when n is a multiple
\* of 3; every other call ends in the professional fallback.
C17_EveryThirdCallIsNeural ==
    [][phase' = "done" =>
          /\ generationCount' = generationCount + 1
          /\ path' = IF generationCount' % 3 = 0 THEN "neural" ELSE "professional"]_vars

\* The third call has settled on the neural path
C17_Witness ==
    /\ Settled
    /\ generationCount = 3
    /\ path = "neural"

\* C16: after any sequence of createTrack and deleteTrack calls, getTrack(id)
\* returns a track exactly when createTrack returned that id and deleteTrack
\* has not removed it since; createTrack returns a track with a createdAt
\* and an id no earlier createTrack returned; deleteTrack returns true
\* exactly when the id was present.
C16_StorageTracksLiveIds ==
    [][/\ \A id \in Ids : (MapGet(tracks', id) # Undefined) <=> (id \in live')
       /\ reply'.op = "createTrack" =>
              /\ reply'.id \notin issued
              /\ Get(reply'.result).id = reply'.id
              /\ Get(reply'.result).createdAt = clock
              /\ MapGet(tracks', reply'.id) = reply'.result
       /\ reply'.op = "deleteTrack" =>
              /\ Get(reply'.result) <=> (reply'.id \in live)
              /\ MapGet(tracks', reply'.id) = Undefined
       /\ reply'.op = "getTrack" =>
              reply'.result = (IF reply'.id \in live THEN getTrack(reply'.id) ELSE Undefined)]_vars

\* A track was created, deleted, and another created after it
C16_Witness ==
    /\ reply.op = "createTrack"
    /\ Cardinality(issued) >= 2
    /\ issued \ live # {}
    /\ live # {}

EffectsOfChannel == effectsStates[mixerChannels[channel].effects]

\* C18: when the effects chain starts on a layer, that layer's delay and
\* reverb ring buffers hold only zeros and their indices are 0, whatever
\* earlier layers of the render and earlier renders did.
C18_EffectsStartFromZero ==
    (fxPc = "effects" /\ sampleIndex = 0) =>
        /\ EffectsOfChannel.delay = [buffer |-> Zeros(DelayLength), index |-> 0]
        /\ EffectsOfChannel.reverb = [buffer |-> Zeros(ReverbLength), index |-> 0]

\* The chain starts on the second layer of a later render, the first layer
\* having left values in its own ring buffers
C18_Witness ==
    /\ fxPc = "effects"
    /\ sampleIndex = 0
    /\ channel = 2
    /\ renders = 2
    /\ effectsStates[mixerChannels[1].effects].delay.buffer # Zeros(DelayLength)
    /\ effectsStates[mixerChannels[1].effects].reverb.buffer # Zeros(ReverbLength)

\* What the ring buffer of the given length held at step i: the value written
\* at step i - length, 0 before
StoredAt(history, i, length) == IF i < length THEN 0 ELSE history[i - length + 1]

\* One step of a feedback delay line with the coefficients in thousandths
DelayLineStep(step, history, i, length, feedback, wet) ==
    LET stored == StoredAt(history, i, length)
    IN  /\ step.written = step.input + Cut(stored * feedback, 1000)
        /\ step.output = step.input + Cut(stored * wet, 1000)
        /\ step.index = (i + 1) % length
        /\ step.index \in 0..(length - 1)
        /\ feedback <= 400

\* C19: at step i a delay line of length N (the delay and the reverb alike)
\* writes input[i] + feedback x stored and returns input[i] + wet x stored,
\* stored being the value written at step i - N (0 when i < N), read before
\* it is overwritten; the index stays in 0..N-1 and the feedback coefficient
\* is at most 0.4.
C19_DelayLinesReadBeforeWrite ==
    effectLog # Undefined =>
        LET log == Get(effectLog)
            level == reverbLevel(Get(fxSettings))
        IN  /\ DelayLineStep(log.delay, written.delay, log.i, DelayLength, 300, 200)
            /\ DelayLineStep(log.reverb, written.reverb, log.i, ReverbLength, level * 4, level * 10)

\* A step at which both ring buffers give back a value written before
C19_Witness ==
    /\ effectLog # Undefined
    /\ Get(effectLog).i >= ReverbLength
    /\ StoredAt(written.delay, Get(effectLog).i, DelayLength) # 0
    /\ StoredAt(written.reverb, Get(effectLog).i, ReverbLength) # 0
    /\ Get(effectLog).reverb.output # Get(effectLog).reverb.input

\* C20: the distortion stage works with amount = settings.distortion / 100
\* for every distortion in 0..100; with distortion 0 it returns each sample
\* unchanged.
C20_DistortionAmountFromSetting ==
    (effectLog # Undefined /\ Get(fxSettings).distortion # Undefined) =>
        LET amount == Get(Get(fxSettings).distortion)
            step == Get(effectLog).distortion
        IN  step.output = IF amount = 0 THEN step.input ELSE saturate(step.input, amount)

\* C21: for every fadeIn and fadeOut in 0..10 seconds the mastering stage
\* scales sample i by i / (fadeIn * 44100) only for i < fadeIn * 44100 and by
\* (length - i) / (fadeOut * 44100) only for the last fadeOut * 44100 samples,
\* so a fade of 0 seconds attenuates no sample
C21_FadesFollowSettings ==
    master # Undefined =>
        LET m == Get(master)
            Unity(gain) == gain[1] = gain[2]
        IN  /\ m.settings.fadeIn # Undefined =>
                  LET fadeInSamples == Get(m.settings.fadeIn) * SAMPLE_RATE
                  IN  IF m.i < fadeInSamples
                      THEN m.result.fadeIn = <<m.i, fadeInSamples>>
                      ELSE Unity(m.result.fadeIn)
            /\ m.settings.fadeOut # Undefined =>
                  LET fadeOutSamples == Get(m.settings.fadeOut) * SAMPLE_RATE
                  IN  IF m.i > m.length - fadeOutSamples
                      THEN m.result.fadeOut = <<m.length - m.i, fadeOutSamples>>
                      ELSE Unity(m.result.fadeOut)

\* C22: when customPrompt is empty or absent the tempo multiplier is 1.0 and
\* the resolved tempo is round(settings.pace); 0.7 applies only when the
\* user's prompt holds a slow keyword and 1.3 only when it holds a fast one
C22_MultiplierFromUserWords ==
    (Analysed /\ request.pace # Undefined) =>
        LET supplied == request.customPrompt # Undefined /\ Get(request.customPrompt) # <<>>
            userWords == IF supplied THEN MapToLower(Get(request.customPrompt)) ELSE <<>>
        IN  /\ resolved.tempo = calculateProfessionalTempo(userWords, Get(request.pace))
            /\ ~supplied => resolved.tempo = Get(request.pace)

\* C23: the text-derived mood is the first mood, in the order dreamy, dark,
\* uplifting, melancholic, ethereal, nostalgic, whose keyword set holds a word
\* of the lowercased prompt, and dreamy when no set matches; a word listed in
\* two sets resolves to the earlier mood
C23_FirstMatchingMood ==
    moodCall # Undefined =>
        LET call == Get(moodCall)
            order == <<"dreamy", "dark", "uplifting", "melancholic", "ethereal", "nostalgic">>
            Matches(k) == \E i \in 1..Len(call.words) : call.words[i] \in moodKeywords(order[k])
        IN  IF \E k \in 1..6 : Matches(k)
            THEN \E k \in 1..6 : /\ Matches(k)
                                 /\ \A j \in 1..(k - 1) : ~Matches(j)
                                 /\ call.mood = order[k]
            ELSE call.mood = "dreamy"

\* A prompt whose only keyword is listed under two moods has been resolved
C23_Witness ==
    /\ moodCall # Undefined
    /\ Get(moodCall).words = <<"nostalgic">>
    /\ Get(moodCall).mood = "melancholic"

\* C24: every entry of every synth layer's pattern (bass, arpeggio,
\* percussion) is a trigger strength in [0,1], and every pattern has the same
\* fixed length of 64 steps, for every tempo and scale
C24_PatternsAreTriggerStrengths ==
    (synthLayer # Undefined /\ Get(synthLayer).pattern # Undefined) =>
        LET pattern == Get(Get(synthLayer).pattern)
        IN  /\ Len(pattern) = 64
            /\ \A n \in 1..Len(pattern) : pattern[n] >= 0 /\ pattern[n] <= 10

\* C25: each layer's signal enters the pre-compression mix multiplied by that
\* layer's volume exactly once end to end: no layer has its volume applied
\* both inside its generator and again in the mixer
C25_VolumeAppliedOnce ==
    rendered # Undefined =>
        LET layer == Get(synthLayer)
            r == Get(rendered)
            unscaled == CASE layer.type = "pad" -> Cut(r.signal * 3, 10)
                          [] layer.type \in {"bass", "percussion"} ->
                                Cut(r.signal * Get(layer.pattern)[r.stepIndex + 1], 10)
                          [] OTHER -> r.signal
        IN  r.mixTerm = Cut(Cut(unscaled * r.through, 100) * layer.volume, 100)

\* C26: in the percussion layer every step the trap pattern designates as a
\* kick (0, 24, 32, 56) is rendered with the kick voice, every snare step
\* (16, 48) with the snare voice, every hi-hat step (4, 12, ..., 60) with the
\* hi-hat voice, and every zero step is silent
C26_VoiceFollowsDesignation ==
    (rendered # Undefined /\ Get(synthLayer).type = "percussion") =>
        LET r == Get(rendered)
            i == r.stepIndex
        IN  /\ i \in {0, 24, 32, 56} => r.voice = "kick"
            /\ i \in {16, 48} => r.voice = "snare"
            /\ i % 8 = 4 => r.voice = "hihat"
            /\ Get(Get(synthLayer).pattern)[i + 1] = 0 => (r.voice = "silent" /\ r.generated = 0)

\* C27: for every sample of every layer the per-layer effects are applied in
\* the order distortion, filter, chorus, delay, reverb, and the chain applied
\* with freshly initialised effect state to the same input buffer and settings
\* twice yields the same output buffer
C27_FixedOrderFixedOutput ==
    /\ effectLog # Undefined =>
          LET log == Get(effectLog)
              ch == mixerChannels[IF fxPc = "layer" THEN channel - 1 ELSE channel]
          IN  /\ log.distortion.input = Read(ch.input, log.i)
              /\ log.distortion.output = applyDistortion(log.distortion.input, Get(fxSettings))
              /\ log.delay.input = applyChorus(applyFilter(log.distortion.output, log.i), log.i)
              /\ log.reverb.input = log.delay.output
              /\ Read(ch.buffer, log.i) = log.reverb.output
    /\ fxPc = "mix" =>
          \A a, b \in 1..Len(mixerChannels) :
              mixerChannels[a].input = mixerChannels[b].input
                  => mixerChannels[a].buffer = mixerChannels[b].buffer

\* Two layers of one render held the same samples and the chain has changed them
C27_Witness ==
    /\ fxPc = "mix"
    /\ Len(mixerChannels) >= 2
    /\ mixerChannels[1].input = mixerChannels[2].input
    /\ mixerChannels[1].buffer # mixerChannels[1].input
    /\ Get(effectLog).reverb.output # Get(effectLog).reverb.input
    /\ Get(effectLog).delay.output # Get(effectLog).delay.input

C29_EliteSurvivesUnchanged ==
    evolvePc = "done" =>
        \A k \in 1..ELITE_SIZE :
            /\ population[k] = elite[k]
            /\ heap.chords[population[k].chordProgression] = eliteGenes[k].chordProgression
            /\ heap.effects[population[k].effectsGenetics] = eliteGenes[k].effectsGenetics

\* C30: for every resolved tempo the song structure's totalBars, which scales
\* the professional duration, is the sum of the bar counts of its five
\* sections intro, verse, chorus, bridge and outro
C30_TotalBarsIsSumOfSections ==
    Analysed =>
        LET s == resolved.songStructure
        IN  s.totalBars = s.intro + s.verse + s.chorus + s.bridge + s.outro

====
